---- MODULE Spec2Model ----
(***************************************************************************)
(* Model of the yaban Google Maps scraper: the GoogleMapsScraper class     *)
(* (both revisions present in the repository), the single-query entry      *)
(* point scraper/main.ts and the batch driver scraper/fetch-all-places.ts. *)
(*                                                                         *)
(* Strings of the page (attribute values, hrefs) are sequences of          *)
(* symbols.  The symbol "P" stands for the substring "/maps/place/", "H"   *)
(* for the prefix "http", "G" for the origin "https://www.google.com", "R"  *)
(* for the word "reviews"; every other symbol is one character.            *)
(***************************************************************************)
EXTENDS Integers, Sequences, FiniteSets, TLC

VARIABLES
    mode,               \* "single" (main.ts) or "batch" (fetch-all-places.ts)
    variant,            \* "poll" (unnamed/part_000) or "selector" (scraper/maps-scraper.ts)
    maxResults,         \* the maxResults command line argument
    pc,                 \* position of main
    i,                  \* batch loop index, 1-based
    browser,            \* this.browser: "null", "open" or "closed"
    page,               \* this.page is set
    launches,           \* browser processes launched so far
    closeCalls,         \* calls of scraper.close()
    feedItems,          \* the items the results feed can render, in document order
    loaded,             \* how many of them are rendered now
    volatile,           \* the page may drop rendered items again
    attempts,           \* waitForResults: attempts
    queries,            \* page.$ polls issued by the running waitForResults
    previousCount,      \* scrollResults: previousCount
    noNewResultsCount,  \* scrollResults: noNewResultsCount
    obs,                \* the last values of currentCount, after the baseline 0
    scrolls,            \* scroll commands issued since the recorded count last changed
    scrollExit,         \* how scrollResults left its loop: "", "target", "stall"
    failedCounts,       \* count queries that failed in a row, up to the last one
    places,             \* the result of searchPlaces
    err,                \* the error in flight, <<>> when none
    districts,          \* results.districts
    files,              \* run payloads written to disk, in write order
    summaryFile,        \* summary.json, <<>> while not written
    attempted,          \* searchPlaces calls: district and browser session
    raised,             \* districts whose try block raised
    lastDelay,          \* ms of the last delay since a status entry was recorded, 0 when none
    exitCode            \* process exit code, -1 while running

vars == <<mode, variant, maxResults, pc, i, browser, page, launches, closeCalls,
          feedItems, loaded, volatile, attempts, queries, previousCount,
          noNewResultsCount, obs, scrolls, scrollExit, failedCounts, places, err,
          districts,
          files, summaryFile, attempted, raised, lastDelay, exitCode>>

cfgVars == <<mode, variant, maxResults>>
sessVars == <<browser, page, launches, closeCalls>>
pageVars == <<feedItems, loaded, volatile>>
waitVars == <<attempts, queries>>
scrollVars == <<previousCount, noNewResultsCount, obs, scrolls, scrollExit,
                failedCounts>>
outVars == <<districts, files, summaryFile>>

(***************************************************************************)
(* Bounds of the model and constants of the program.                       *)
(***************************************************************************)
NumDistricts == 2
MaxItems == 3
MaxHref == 5
MaxLabel == 5

maxAttempts == 30
maxNoNewResults == 3
SettleDelay == 4000
PollDelay == 1000
FeedDelay == 3000
FeedDelaySelector == 2000
ScrollDelay == 2000
ScrollDelaySelector == 1500
ExtractDelay == 1000

TOKYO_DISTRICTS == 1..NumDistricts

(***************************************************************************)
(* DOM attributes and the feed items.                                      *)
(***************************************************************************)
Attr(v) == [present |-> TRUE, value |-> v]
NoAttr == [present |-> FALSE, value |-> <<>>]

\* getAttribute(..) || ""
AttrOrEmpty(a) == IF a.present THEN a.value ELSE <<>>

\* href*="/maps/place/"
HasPlacePath(h) == \E k \in 1..Len(h) : h[k] = "P"

IsPlaceLink(it) == it.href.present /\ HasPlacePath(it.href.value)

IsArticle(it) == it.article

IsDirect(it) == it.direct

\* url.match(/!1s([^!]+)/): leftmost match, greedy capture
MatchAt(h, k) ==
    /\ k + 3 <= Len(h)
    /\ h[k] = "!" /\ h[k + 1] = "1" /\ h[k + 2] = "s"
    /\ h[k + 3] # "!"

PlaceIdOf(h) ==
    LET ks == {k \in 1..Len(h) : MatchAt(h, k)}
    IN  IF ks = {} THEN <<>>
        ELSE LET k0 == CHOOSE k \in ks : \A j \in ks : k <= j
                 e == CHOOSE m \in (k0 + 3)..Len(h) :
                          /\ \A j \in (k0 + 3)..m : h[j] # "!"
                          /\ (m = Len(h) \/ h[m + 1] = "!")
             IN  SubSeq(h, k0 + 3, e)

AbsUrl(u) == IF Len(u) > 0 /\ u[1] = "H" THEN u ELSE <<"G">> \o u

(***************************************************************************)
(* The review count: /([\d,]+)\s+reviews/, replace(/,/g, ""), parseInt.    *)
(***************************************************************************)
Digits == <<"0", "1", "2", "3", "4", "5", "6", "7", "8", "9">>

IsDigit(c) == \E k \in 1..Len(Digits) : Digits[k] = c

DigitValue(c) == (CHOOSE k \in 1..Len(Digits) : Digits[k] = c) - 1

\* [\d,]
IsDigitOrComma(c) == IsDigit(c) \/ c = ","

\* \s
IsSpace(c) == c = " "

\* [\d,]+ from position k: the last position of the longest run
DigitRunEnd(s, k) ==
    CHOOSE e \in k..Len(s) :
        /\ \A j \in k..e : IsDigitOrComma(s[j])
        /\ (e = Len(s) \/ ~IsDigitOrComma(s[e + 1]))

\* \s+ from position k: the last position of the longest run
SpaceRunEnd(s, k) ==
    CHOOSE e \in k..Len(s) :
        /\ \A j \in k..e : IsSpace(s[j])
        /\ (e = Len(s) \/ ~IsSpace(s[e + 1]))

\* the pattern matches from position k: digits and commas, white space, the word
ReviewMatchAt(s, k) ==
    /\ k <= Len(s) /\ IsDigitOrComma(s[k])
    /\ LET e == DigitRunEnd(s, k)
       IN  /\ e + 2 <= Len(s)
           /\ IsSpace(s[e + 1])
           /\ LET f == SpaceRunEnd(s, e + 1)
              IN  f + 1 <= Len(s) /\ s[f + 1] = "R"

\* replace(/,/g, "")
StripCommas(s) == SelectSeq(s, IsDigit)

RECURSIVE DecimalValue(_)
DecimalValue(s) ==
    IF s = <<>> THEN 0
    ELSE 10 * DecimalValue(SubSeq(s, 1, Len(s) - 1)) + DigitValue(s[Len(s)])

Absent == [kind |-> "undefined", value |-> 0]

NotANumber == [kind |-> "NaN", value |-> 0]

Number(n) == [kind |-> "number", value |-> n]

\* parseInt of a string of decimal digits; the empty string gives NaN
parseInt(s) == IF s = <<>> THEN NotANumber ELSE Number(DecimalValue(s))

\* reviewMatch ? parseInt(reviewMatch[1].replace(/,/g, "")) : undefined
TotalReviews(a) ==
    LET s == AttrOrEmpty(a)
        ks == {k \in 1..Len(s) : ReviewMatchAt(s, k)}
    IN  IF ks = {} THEN Absent
        ELSE LET k0 == CHOOSE k \in ks : \A j \in ks : k <= j
             IN  parseInt(StripCommas(SubSeq(s, k0, DigitRunEnd(s, k0))))

(***************************************************************************)
(* extractPlaces: one pass over the rendered feed.                         *)
(***************************************************************************)
\* reviews: the aria-label of the container's first span[aria-label*="reviews"]
Item(d, a, l, h, r) ==
    [direct |-> d, article |-> a, label |-> l, href |-> h, reviews |-> r]

\* part_000: the candidates are the place links of the feed
LinkName(it) == AttrOrEmpty(it.label)

LinkUrl(it) == AttrOrEmpty(it.href)

\* maps-scraper.ts: the candidates are the articles; nameEl may be null
ArticleName(it) == IF IsPlaceLink(it) THEN AttrOrEmpty(it.label) ELSE <<>>

ArticleUrl(it) == IF IsPlaceLink(it) THEN AttrOrEmpty(it.href) ELSE <<>>

PlaceRecord(name, url, reviews) ==
    [placeId |-> PlaceIdOf(url), name |-> name, url |-> AbsUrl(url),
     totalReviews |-> TotalReviews(reviews)]

\* a plausible slip: || in place of &&
EmitsEither(name, placeId) == name # <<>> \/ placeId # <<>>

\* a slip: the name is not tested
EmitsIdOnly(name, placeId) == placeId # <<>>

\* if (name && placeId)
Emits(name, placeId) == name # <<>> /\ placeId # <<>>

LinkEmitted(it) == Emits(LinkName(it), PlaceIdOf(LinkUrl(it)))

ArticleEmitted(it) == Emits(ArticleName(it), PlaceIdOf(ArticleUrl(it)))

extractPlaces(items) ==
    LET links == SelectSeq(items, IsPlaceLink)
        kept == SelectSeq(links, LinkEmitted)
    IN  [k \in 1..Len(kept) |->
            PlaceRecord(LinkName(kept[k]), LinkUrl(kept[k]), kept[k].reviews)]

extractPlacesSelector(items) ==
    LET articles == SelectSeq(items, IsArticle)
        kept == SelectSeq(articles, ArticleEmitted)
    IN  [k \in 1..Len(kept) |->
            PlaceRecord(ArticleName(kept[k]), ArticleUrl(kept[k]), kept[k].reviews)]

ExtractBy(v, items) ==
    IF v = "poll" THEN extractPlaces(items) ELSE extractPlacesSelector(items)

(***************************************************************************)
(* The count query of scrollResults.                                       *)
(***************************************************************************)
\* part_000: `feed > div > div > a`, else the place links
countResults(items) ==
    LET d == Len(SelectSeq(items, IsDirect))
    IN  IF d = 0 THEN Len(SelectSeq(items, IsPlaceLink)) ELSE d

\* maps-scraper.ts: `feed > div[role="article"]`
countResultsSelector(items) == Len(SelectSeq(items, IsArticle))

CountBy(v, items) ==
    IF v = "poll" THEN countResults(items) ELSE countResultsSelector(items)

(***************************************************************************)
(* The pages of the model: the feed renders a prefix of a fixed catalogue  *)
(* of item shapes.                                                         *)
(***************************************************************************)
ItemSamples ==
    << Item(TRUE, TRUE, Attr(<<"A">>), Attr(<<"P", "x", "!", "1", "s", "a", "b", "!", "8">>),
            Attr(<<"1", ",", "2", "3", "4", " ", "R">>)),
       Item(FALSE, TRUE, NoAttr, Attr(<<"P", "!", "1", "s", "c">>), NoAttr),
       Item(TRUE, TRUE, Attr(<<"B">>), Attr(<<"P", "x", "!", "1", "s", "!">>), NoAttr),
       Item(FALSE, FALSE, Attr(<<"C">>), Attr(<<"H", "P", "!", "1", "s", "d">>),
            Attr(<<"x", " ", "R">>)),
       Item(TRUE, TRUE, Attr(<<"D">>), Attr(<<"x", "!", "1", "s", "e">>), NoAttr),
       Item(FALSE, TRUE, Attr(<<>>), Attr(<<"P", "!", "1", "s", "f">>), NoAttr),
       Item(TRUE, FALSE, Attr(<<"E">>), NoAttr, NoAttr) >>

Catalogue(from, n) ==
    [k \in 1..n |-> ItemSamples[((from + k - 2) % Len(ItemSamples)) + 1]]

Rendered == SubSeq(feedItems, 1, loaded)

(***************************************************************************)
(* Control flow helpers.                                                   *)
(***************************************************************************)
Running == pc \notin {"returned", "rejected", "killed"}

\* the statements of the per-district try block of the batch loop
DistrictTry ==
    {"search", "wait", "scroll", "scrollCount", "scrollCmd", "extract", "save"}

\* a slip: the error of a district escapes to the outer handler
ThrowOuter(msg) ==
    /\ err' = msg
    /\ raised' = IF mode = "batch" /\ pc \in DistrictTry THEN raised \cup {i} ELSE raised
    /\ pc' = "catchFatal"

\* an exception raised at the current statement reaches the innermost handler
Throw(msg) ==
    /\ err' = msg
    /\ raised' = IF mode = "batch" /\ pc \in DistrictTry THEN raised \cup {i} ELSE raised
    /\ pc' = IF mode = "batch" /\ pc \in DistrictTry THEN "catchDistrict" ELSE "catchFatal"

NoThrow == UNCHANGED <<err, raised>>

\* the locals of a searchPlaces call that has ended
LocalsGone ==
    /\ feedItems' = <<>> /\ loaded' = 0 /\ volatile' = FALSE
    /\ attempts' = 0 /\ queries' = 0
    /\ previousCount' = 0 /\ noNewResultsCount' = 0 /\ obs' = <<0>>
    /\ scrolls' = 0 /\ scrollExit' = "" /\ failedCounts' = 0
    /\ places' = <<>>

\* private delay(ms)
delay(ms) == lastDelay' = ms

\* for (let i = 0; i < TOKYO_DISTRICTS.length; i++)
LoopTest(k) == IF k <= NumDistricts THEN "search" ELSE "summary"

(***************************************************************************)
(* The initial state: the process has parsed its arguments.                *)
(***************************************************************************)
MaxResultsArgs == {2, MaxItems + 1}

InitRest ==
    /\ i = 1
    /\ browser = "null" /\ page = FALSE /\ launches = 0 /\ closeCalls = 0
    /\ feedItems = <<>> /\ loaded = 0 /\ volatile = FALSE
    /\ attempts = 0 /\ queries = 0
    /\ previousCount = 0 /\ noNewResultsCount = 0 /\ obs = <<0>>
    /\ scrolls = 0 /\ scrollExit = "" /\ failedCounts = 0
    /\ places = <<>> /\ err = <<>>
    /\ districts = <<>> /\ files = <<>> /\ summaryFile = <<>>
    /\ attempted = <<>> /\ raised = {}
    /\ lastDelay = 0 /\ exitCode = -1

Init ==
    /\ mode \in {"single", "batch"}
    /\ variant \in {"poll", "selector"}
    /\ maxResults \in MaxResultsArgs
    /\ pc = IF mode = "batch" THEN "mkdir" ELSE "initialize"
    /\ InitRest

(***************************************************************************)
(* fetch-all-places.ts: ensureDirectory, outside the try statement.        *)
(***************************************************************************)
ensureDirectory(ok) ==
    /\ pc = "mkdir"
    /\ IF ok
         THEN pc' = "initialize" /\ UNCHANGED <<err, exitCode>>
         ELSE pc' = "rejected" /\ err' = <<"mkdir">> /\ exitCode' = 1
    /\ UNCHANGED <<cfgVars, i, sessVars, pageVars, waitVars, scrollVars, places,
                   outVars, attempted, raised, lastDelay>>

(***************************************************************************)
(* GoogleMapsScraper.initialize                                            *)
(***************************************************************************)
initialize(outcome, pageSet) ==
    /\ pc = "initialize"
    /\ closeCalls' = closeCalls
    /\ CASE outcome = "launchFails" ->
              /\ pageSet = FALSE
              /\ UNCHANGED <<browser, page, launches>>
              /\ Throw(<<"launch">>)
         [] outcome = "setupFails" ->
              /\ browser' = "open" /\ launches' = launches + 1
              /\ page' = pageSet
              /\ Throw(<<"setup">>)
         [] outcome = "ok" ->
              /\ pageSet = TRUE
              /\ browser' = "open" /\ launches' = launches + 1
              /\ page' = TRUE
              /\ pc' = IF mode = "batch" THEN LoopTest(i) ELSE "search"
              /\ NoThrow
    /\ UNCHANGED <<cfgVars, i, pageVars, waitVars, scrollVars, places, outVars,
                   attempted, lastDelay, exitCode>>

(***************************************************************************)
(* GoogleMapsScraper.searchPlaces: the page check and the navigation.      *)
(***************************************************************************)
searchPlaces(ok) ==
    /\ pc = "search"
    /\ attempted' = Append(attempted, [district |-> i, session |-> launches])
    /\ IF ~page
         THEN /\ ok = FALSE
              /\ Throw(<<"not initialized">>)
              /\ UNCHANGED <<pageVars, waitVars, lastDelay>>
         ELSE IF ~ok
                THEN /\ Throw(<<"navigation">>)
                     /\ UNCHANGED <<pageVars, waitVars, lastDelay>>
                ELSE /\ feedItems' = <<>> /\ loaded' = 0 /\ volatile' = FALSE
                     /\ attempts' = 0 /\ queries' = 0
                     /\ IF variant = "poll" THEN delay(SettleDelay)
                                            ELSE UNCHANGED lastDelay
                     /\ pc' = "wait"
                     /\ NoThrow
    /\ UNCHANGED <<cfgVars, i, sessVars, scrollVars, places, outVars, exitCode>>

(***************************************************************************)
(* GoogleMapsScraper.waitForResults                                        *)
(***************************************************************************)
\* the feed container has appeared: some page of the model is now loading
FeedAppears(from, n, l0, v) ==
    /\ from \in 1..Len(ItemSamples) /\ n \in 0..MaxItems /\ l0 \in 0..n /\ v \in BOOLEAN
    /\ feedItems' = Catalogue(from, n)
    /\ loaded' = l0
    /\ volatile' = v

\* throw new Error("Timeout waiting for results feed")
TimeoutMessage == <<"Timeout waiting for results feed">>

\* a slip: the budget is tested with <=
BudgetLeftInclusive(n) == n <= maxAttempts

\* while (attempts < maxAttempts)
BudgetLeft(n) == n < maxAttempts

\* part_000: one turn of the polling loop
waitForResults(r, from, n, l0, v) ==
    /\ pc = "wait" /\ variant = "poll"
    /\ queries' = queries + 1
    /\ IF r = "found"
         THEN /\ FeedAppears(from, n, l0, v)
              /\ attempts' = attempts
              /\ delay(FeedDelay)
              /\ pc' = "scroll"
              /\ UNCHANGED scrollVars
              /\ NoThrow
         ELSE /\ r \in {"absent", "error"}
              /\ from = 1 /\ n = 0 /\ l0 = 0 /\ v = FALSE
              /\ attempts' = attempts + 1
              /\ delay(PollDelay)
              /\ IF BudgetLeft(attempts + 1)
                   THEN pc' = "wait" /\ NoThrow
                   ELSE Throw(TimeoutMessage)
              /\ UNCHANGED <<pageVars, scrollVars>>
    /\ UNCHANGED <<cfgVars, i, sessVars, places, outVars, attempted, exitCode>>

\* maps-scraper.ts: page.waitForSelector with its own timeout
waitForResultsSelector(found, from, n, l0, v) ==
    /\ pc = "wait" /\ variant = "selector"
    /\ queries' = queries + 1
    /\ attempts' = attempts
    /\ IF found
         THEN /\ FeedAppears(from, n, l0, v)
              /\ delay(FeedDelaySelector)
              /\ pc' = "scroll"
              /\ UNCHANGED scrollVars
              /\ NoThrow
         ELSE /\ from = 1 /\ n = 0 /\ l0 = 0 /\ v = FALSE
              /\ Throw(<<"TimeoutError">>)
              /\ UNCHANGED <<pageVars, scrollVars, lastDelay>>
    /\ UNCHANGED <<cfgVars, i, sessVars, places, outVars, attempted, exitCode>>

(***************************************************************************)
(* GoogleMapsScraper.scrollResults                                         *)
(***************************************************************************)
\* waitForResults has returned; scrollResults sets up its locals
scrollResultsEnter ==
    /\ pc = "scroll"
    /\ attempts' = 0 /\ queries' = 0
    /\ previousCount' = 0
    /\ noNewResultsCount' = 0
    /\ obs' = <<0>>
    /\ scrolls' = 0
    /\ scrollExit' = ""
    /\ failedCounts' = 0
    /\ pc' = "scrollCount"
    /\ UNCHANGED <<cfgVars, i, sessVars, pageVars, places, err, outVars,
                   attempted, raised, lastDelay, exitCode>>

\* the baseline and the last maxNoNewResults observations
Window(s) ==
    IF Len(s) > maxNoNewResults + 1
        THEN SubSeq(s, Len(s) - maxNoNewResults, Len(s))
        ELSE s

\* a slip: the target is tested with >
TargetReachedStrict(currentCount) == currentCount > maxResults

\* if (currentCount >= maxResults) break
TargetReached(currentCount) == currentCount >= maxResults

\* if (currentCount === previousCount) noNewResultsCount++ else noNewResultsCount = 0
StallCount(currentCount) ==
    IF currentCount = previousCount
        THEN noNewResultsCount + 1
        ELSE 0

\* a variant: the threshold is tested right after the bookkeeping, before the
\* scroll command
ObserveThenTest(currentCount) ==
    /\ obs' = Window(Append(obs, currentCount))
    /\ IF TargetReached(currentCount)
         THEN /\ scrollExit' = "target"
              /\ pc' = "extract"
              /\ UNCHANGED <<previousCount, noNewResultsCount, scrolls>>
         ELSE /\ noNewResultsCount' = StallCount(currentCount)
              /\ previousCount' = IF currentCount = previousCount
                                      THEN previousCount
                                      ELSE currentCount
              /\ scrolls' = IF currentCount = previousCount THEN scrolls ELSE 0
              /\ IF StallCount(currentCount) < maxNoNewResults
                   THEN scrollExit' = scrollExit /\ pc' = "scrollCmd"
                   ELSE scrollExit' = "stall" /\ pc' = "extract"

\* the loop body from the log line to the stall bookkeeping; scrolls starts
\* over whenever the recorded count changes
Observe(currentCount) ==
    /\ obs' = Window(Append(obs, currentCount))
    /\ IF TargetReached(currentCount)
         THEN /\ scrollExit' = "target"
              /\ pc' = "extract"
              /\ UNCHANGED <<previousCount, noNewResultsCount, scrolls>>
         ELSE /\ noNewResultsCount' = StallCount(currentCount)
              /\ previousCount' = IF currentCount = previousCount
                                      THEN previousCount
                                      ELSE currentCount
              /\ scrolls' = IF currentCount = previousCount THEN scrolls ELSE 0
              /\ scrollExit' = scrollExit
              /\ pc' = "scrollCmd"

\* a slip: the handler of a failed count query returns 0
CountOrZero(r) == IF r = "ok" THEN countResults(Rendered) ELSE 0

\* page.evaluate(..).catch(() => previousCount)
CountOrPrevious(r) == IF r = "ok" THEN countResults(Rendered) ELSE previousCount

\* part_000: a failed count query yields previousCount
scrollResultsCount(r) ==
    /\ pc = "scrollCount" /\ variant = "poll"
    /\ r \in {"ok", "detached"}
    /\ Observe(CountOrPrevious(r))
    /\ failedCounts' = IF r = "ok" THEN 0 ELSE failedCounts + 1
    /\ NoThrow
    /\ UNCHANGED <<cfgVars, i, sessVars, pageVars, waitVars, places,
                   outVars, attempted, lastDelay, exitCode>>

\* maps-scraper.ts: a failed count query rejects scrollResults
scrollResultsCountSelector(r) ==
    /\ pc = "scrollCount" /\ variant = "selector"
    /\ r \in {"ok", "detached"}
    /\ IF r = "ok"
         THEN Observe(countResultsSelector(Rendered)) /\ failedCounts' = 0 /\ NoThrow
         ELSE Throw(<<"detached">>) /\ UNCHANGED scrollVars
    /\ UNCHANGED <<cfgVars, i, sessVars, pageVars, waitVars, places,
                   outVars, attempted, lastDelay, exitCode>>

\* what the feed may render after a scroll command
AfterScroll ==
    IF volatile THEN 0..Len(feedItems) ELSE loaded..Len(feedItems)

\* a slip: the loop runs one stall longer
KeepScrollingInclusive == noNewResultsCount <= maxNoNewResults

\* while (noNewResultsCount < maxNoNewResults)
KeepScrolling == noNewResultsCount < maxNoNewResults

LoopBack ==
    IF KeepScrolling
        THEN pc' = "scrollCount" /\ scrollExit' = scrollExit
        ELSE pc' = "extract" /\ scrollExit' = "stall"

\* part_000: the scroll command, the wait and the loop test
scrollResultsScroll(r, n) ==
    /\ pc = "scrollCmd" /\ variant = "poll"
    /\ scrolls' = scrolls + 1
    /\ \/ r = "ok" /\ n \in AfterScroll
       \/ r = "detached" /\ n = loaded
    /\ loaded' = n
    /\ delay(ScrollDelay)
    /\ LoopBack
    /\ NoThrow
    /\ UNCHANGED <<cfgVars, i, sessVars, feedItems, volatile, waitVars,
                   previousCount, noNewResultsCount, obs, failedCounts, places,
                   outVars, attempted, exitCode>>

\* maps-scraper.ts: a failed scroll command rejects scrollResults
scrollResultsScrollSelector(r, n) ==
    /\ pc = "scrollCmd" /\ variant = "selector"
    /\ scrolls' = scrolls + 1
    /\ IF r = "ok"
         THEN /\ n \in AfterScroll
              /\ loaded' = n
              /\ delay(ScrollDelaySelector)
              /\ LoopBack
              /\ NoThrow
         ELSE /\ r = "detached" /\ n = loaded
              /\ Throw(<<"detached">>)
              /\ UNCHANGED <<loaded, lastDelay, scrollExit>>
    /\ UNCHANGED <<cfgVars, i, sessVars, feedItems, volatile, waitVars,
                   previousCount, noNewResultsCount, obs, failedCounts, places,
                   outVars, attempted, exitCode>>

(***************************************************************************)
(* GoogleMapsScraper.extractPlaces, as searchPlaces calls it.              *)
(***************************************************************************)
extractStep(ok) ==
    /\ pc = "extract"
    /\ IF ok
         THEN /\ places' = ExtractBy(variant, Rendered)
              /\ pc' = "save"
              /\ NoThrow
         ELSE /\ Throw(<<"detached">>)
              /\ UNCHANGED places
    /\ IF variant = "poll" THEN delay(ExtractDelay) ELSE UNCHANGED lastDelay
    /\ UNCHANGED <<cfgVars, i, sessVars, pageVars, waitVars, scrollVars, outVars,
                   attempted, exitCode>>

(***************************************************************************)
(* Persistence and the two entry points.                                   *)
(***************************************************************************)
\* a slip: the requested cap is written as the total
RunPayloadCap(d, ps) == [district |-> d, totalResults |-> maxResults, places |-> ps]

\* { query, scrapedAt, totalResults: places.length, places }
RunPayload(d, ps) == [district |-> d, totalResults |-> Len(ps), places |-> ps]

SuccessEntry(d, ps) ==
    [name |-> d, placesFound |-> Len(ps), status |-> "success", error |-> <<>>]

\* a slip: the handler records the district as scraped
ErrorEntrySuccess(d, e) ==
    [name |-> d, placesFound |-> 0, status |-> "success", error |-> e]

ErrorEntry(d, e) ==
    [name |-> d, placesFound |-> 0, status |-> "error", error |-> e]

\* main.ts: saveRawData, then the preview; the try block ends
saveRawData(ok) ==
    /\ pc = "save" /\ mode = "single"
    /\ IF ok
         THEN /\ files' = Append(files, RunPayload(0, places))
              /\ pc' = "finally"
              /\ NoThrow
         ELSE /\ Throw(<<"write">>)
              /\ UNCHANGED files
    /\ UNCHANGED <<cfgVars, i, sessVars, pageVars, waitVars, scrollVars, places,
                   districts, summaryFile, attempted, lastDelay, exitCode>>

\* fetch-all-places.ts: saveBatchData, the status entry, the next iteration
saveBatchData(ok) ==
    /\ pc = "save" /\ mode = "batch"
    /\ IF ok
         THEN /\ files' = Append(files, RunPayload(i, places))
              /\ districts' = Append(districts, SuccessEntry(i, places))
              /\ i' = i + 1
              /\ pc' = LoopTest(i + 1)
              /\ lastDelay' = 0
              /\ LocalsGone
              /\ NoThrow
         ELSE /\ Throw(<<"write">>)
              /\ UNCHANGED <<files, districts, i, lastDelay, pageVars, waitVars,
                             scrollVars, places>>
    /\ UNCHANGED <<cfgVars, sessVars, summaryFile, attempted, exitCode>>

\* fetch-all-places.ts: the catch block of the loop body
catchDistrict ==
    /\ pc = "catchDistrict"
    /\ districts' = Append(districts, ErrorEntry(i, err))
    /\ err' = <<>>
    /\ i' = i + 1
    /\ pc' = LoopTest(i + 1)
    /\ lastDelay' = 0
    /\ LocalsGone
    /\ UNCHANGED <<cfgVars, sessVars, files, summaryFile, attempted, raised, exitCode>>

\* fetch-all-places.ts: summary.json, then the console report; the try block ends
writeSummary(ok) ==
    /\ pc = "summary"
    /\ IF ok
         THEN /\ summaryFile' = <<[totalDistricts |-> NumDistricts,
                                   districts |-> districts]>>
              /\ pc' = "finally"
              /\ NoThrow
         ELSE /\ Throw(<<"write">>)
              /\ UNCHANGED summaryFile
    /\ UNCHANGED <<cfgVars, i, sessVars, pageVars, waitVars, scrollVars, places,
                   districts, files, attempted, lastDelay, exitCode>>

\* both entry points: catch (error) { console.error(..); throw error; }
catchFatal ==
    /\ pc = "catchFatal"
    /\ pc' = "finally"
    /\ UNCHANGED <<cfgVars, i, sessVars, pageVars, waitVars, scrollVars, places,
                   err, outVars, attempted, raised, lastDelay, exitCode>>

\* a slip: close() forgets the browser
closeNothing == browser

\* GoogleMapsScraper.close: if (this.browser) await this.browser.close()
close == IF browser # "null" THEN "closed" ELSE browser

\* both entry points: finally { await scraper.close(); }, then main settles
finally ==
    /\ pc = "finally"
    /\ browser' = close
    /\ closeCalls' = closeCalls + 1
    /\ IF err = <<>>
         THEN pc' = "returned" /\ exitCode' = 0
         ELSE pc' = "rejected" /\ exitCode' = 1
    /\ UNCHANGED <<cfgVars, i, page, launches, pageVars, waitVars, scrollVars,
                   places, err, outVars, attempted, raised, lastDelay>>

\* SIGINT: neither entry point installs a listener, so the process dies by the
\* signal and its memory with it; whether the browser child goes down with it
\* is up to the platform.  What is on disk stays.
interrupt(b) ==
    /\ Running
    /\ b \in {browser} \cup (IF browser = "open" THEN {"closed"} ELSE {})
    /\ browser' = b
    /\ pc' = "killed"
    /\ exitCode' = 130
    /\ LocalsGone
    /\ i' = 1 /\ page' = FALSE /\ err' = <<>> /\ districts' = <<>> /\ lastDelay' = 0
    /\ UNCHANGED <<cfgVars, launches, closeCalls, files, summaryFile, attempted, raised>>

Outcomes == {"ok", "launchFails", "setupFails"}
PollResults == {"found", "absent", "error"}
EvalResults == {"ok", "detached"}
\* the pages of a whole run: steadily loading prefixes of the catalogue
FixtureArgs == {1} \X (0..MaxItems) \X (0..MaxItems) \X {FALSE}

Next ==
    \/ \E ok \in BOOLEAN : ensureDirectory(ok)
    \/ \E o \in Outcomes, ps \in BOOLEAN : initialize(o, ps)
    \/ \E ok \in BOOLEAN : searchPlaces(ok)
    \/ \E r \in PollResults, f \in FixtureArgs : waitForResults(r, f[1], f[2], f[3], f[4])
    \/ \E r \in BOOLEAN, f \in FixtureArgs : waitForResultsSelector(r, f[1], f[2], f[3], f[4])
    \/ scrollResultsEnter
    \/ \E r \in EvalResults : scrollResultsCount(r)
    \/ \E r \in EvalResults : scrollResultsCountSelector(r)
    \/ \E r \in EvalResults, n \in 0..MaxItems : scrollResultsScroll(r, n)
    \/ \E r \in EvalResults, n \in 0..MaxItems : scrollResultsScrollSelector(r, n)
    \/ \E ok \in BOOLEAN : extractStep(ok)
    \/ \E ok \in BOOLEAN : saveRawData(ok)
    \/ \E ok \in BOOLEAN : saveBatchData(ok)
    \/ catchDistrict
    \/ \E ok \in BOOLEAN : writeSummary(ok)
    \/ catchFatal
    \/ finally
    \/ \E b \in {"null", "open", "closed"} : interrupt(b)

Spec == Init /\ [][Next]_vars

(***************************************************************************)
(* scrollResults on its own: every page of the model, entered as           *)
(* searchPlaces enters it in a single-query run.                           *)
(***************************************************************************)
InitScroll ==
    /\ mode = "single"
    /\ variant \in {"poll", "selector"}
    /\ maxResults \in 0..(MaxItems + 1)
    /\ pc = "scroll"
    /\ i = 1
    /\ browser = "open" /\ page = TRUE /\ launches = 1 /\ closeCalls = 0
    /\ \E from \in 1..Len(ItemSamples), n \in 0..MaxItems :
          /\ feedItems = Catalogue(from, n)
          /\ loaded \in 0..n
    /\ volatile \in BOOLEAN
    /\ attempts = 0 /\ queries = 1
    /\ previousCount = 0 /\ noNewResultsCount = 0 /\ obs = <<0>>
    /\ scrolls = 0 /\ scrollExit = "" /\ failedCounts = 0
    /\ places = <<>> /\ err = <<>>
    /\ districts = <<>> /\ files = <<>> /\ summaryFile = <<>>
    /\ attempted = <<[district |-> 1, session |-> 1]>> /\ raised = {}
    /\ lastDelay = (IF variant = "poll" THEN FeedDelay ELSE FeedDelaySelector)
    /\ exitCode = -1

NextScroll ==
    \/ scrollResultsEnter
    \/ \E r \in EvalResults : scrollResultsCount(r)
    \/ \E r \in EvalResults : scrollResultsCountSelector(r)
    \/ \E r \in EvalResults, n \in 0..MaxItems : scrollResultsScroll(r, n)
    \/ \E r \in EvalResults, n \in 0..MaxItems : scrollResultsScrollSelector(r, n)

SpecScroll == InitScroll /\ [][NextScroll]_vars /\ WF_vars(NextScroll)

(***************************************************************************)
(* extractPlaces on its own: every one-anchor feed over a small alphabet,  *)
(* and every catalogue page.                                               *)
(***************************************************************************)
HrefAlphabet == {"P", "!", "1", "s"}

Strs(n) == UNION {[1..m -> HrefAlphabet] : m \in 0..n}

LabelChoices == {NoAttr, Attr(<<>>), Attr(<<"A">>)}

HrefChoices == {NoAttr} \cup {Attr(h) : h \in Strs(MaxHref)}

OneAnchorFeeds ==
    {<<Item(TRUE, a, l, h, NoAttr)>> :
        a \in BOOLEAN, l \in LabelChoices, h \in HrefChoices}

CatalogueFeeds ==
    {Catalogue(from, n) : from \in 1..Len(ItemSamples), n \in 0..MaxItems}

\* every feed of up to MaxItems items drawn from the samples, in any order
SampleFeeds ==
    UNION {[1..m -> {ItemSamples[k] : k \in 1..Len(ItemSamples)}] : m \in 0..MaxItems}

ReviewAlphabet == {"1", "2", ",", " ", "R", "x"}

ReviewChoices ==
    {NoAttr} \cup {Attr(l) : l \in UNION {[1..m -> ReviewAlphabet] : m \in 0..MaxLabel}}

\* one emitted anchor whose container carries any short reviews label
ReviewFeeds ==
    {<<Item(TRUE, TRUE, Attr(<<"A">>), Attr(<<"P", "!", "1", "s", "a">>), r)>> :
        r \in ReviewChoices}

InitExtract ==
    /\ mode = "single"
    /\ variant \in {"poll", "selector"}
    /\ maxResults = MaxItems + 1
    /\ pc = "extract"
    /\ i = 1
    /\ browser = "open" /\ page = TRUE /\ launches = 1 /\ closeCalls = 0
    /\ feedItems \in OneAnchorFeeds \cup CatalogueFeeds \cup SampleFeeds \cup ReviewFeeds
    /\ loaded = Len(feedItems)
    /\ volatile = FALSE
    /\ attempts = 0 /\ queries = 1
    /\ previousCount = 0 /\ noNewResultsCount = 0 /\ obs = <<0>>
    /\ scrolls = 0 /\ scrollExit = "target" /\ failedCounts = 0
    /\ places = <<>> /\ err = <<>>
    /\ districts = <<>> /\ files = <<>> /\ summaryFile = <<>>
    /\ attempted = <<[district |-> 1, session |-> 1]>> /\ raised = {}
    /\ lastDelay = 0 /\ exitCode = -1

NextExtract == \E ok \in BOOLEAN : extractStep(ok)

SpecExtract == InitExtract /\ [][NextExtract]_vars

(***************************************************************************)
(* Properties.                                                             *)
(***************************************************************************)
Settled == pc \in {"returned", "rejected"}

AfterLoop == {"summary", "catchFatal", "finally", "returned", "rejected"}

\* one status entry per district of the list, in list order, and an entry of a
\* district that raised says "error" with no places
EntriesCoverList(ds) ==
    /\ Len(ds) = NumDistricts
    /\ \A k \in 1..Len(ds) :
          /\ ds[k].name = k
          /\ k \in raised => ds[k].status = "error" /\ ds[k].placesFound = 0

\* C1: in a batch run the districts are attempted once each in list order
\* whatever subset of them raises; once the loop has been entered main does not
\* leave before every district was attempted and has its status entry; the
\* summary on disk has one entry per district in list order, totalDistricts of
\* them, and a district that raised (a readiness timeout included) is an
\* "error" entry with placesFound = 0.
C1_BatchIsolation ==
    mode = "batch" =>
        /\ \A k \in 1..Len(attempted) : attempted[k].district = k
        /\ Len(attempted) <= NumDistricts
        /\ (pc \in AfterLoop /\ attempted # <<>>) =>
              /\ Len(attempted) = NumDistricts
              /\ EntriesCoverList(districts)
        /\ summaryFile # <<>> =>
              /\ EntriesCoverList(summaryFile[1].districts)
              /\ summaryFile[1].totalDistricts = Len(summaryFile[1].districts)

C1_Witness ==
    /\ mode = "batch" /\ pc = "returned" /\ summaryFile # <<>>
    /\ summaryFile[1].districts[1].status = "error"
    /\ summaryFile[1].districts[1].error = TimeoutMessage
    /\ summaryFile[1].districts[NumDistricts].status = "success"

\* C2 as stated: whenever main has returned or rethrown, close() was called and
\* no launched browser is still open.
C2_CloseOnEveryPath ==
    Settled => closeCalls >= 1 /\ browser # "open"

\* C2 amended: whenever main has returned or rethrown no launched browser is
\* still open, and close() was called exactly once unless the batch run failed
\* to create its output directory, before anything was launched.
C2_ClosedWhenSettled ==
    Settled =>
        /\ browser # "open"
        /\ launches >= 1 => browser = "closed"
        /\ closeCalls <= 1
        /\ closeCalls = 0 => mode = "batch" /\ launches = 0 /\ err = <<"mkdir">>

C2_Witness ==
    /\ pc = "rejected" /\ launches = 1 /\ browser = "closed" /\ closeCalls = 1
    /\ err = TimeoutMessage

\* C3: no browser session serves two districts of a batch run.
C3_FreshSessionPerDistrict ==
    mode = "batch" =>
        \A j, k \in 1..Len(attempted) :
            j # k => attempted[j].session # attempted[k].session

\* the entries of a summary agree with what happened to each district
EntriesTellOutcome(ds) ==
    \A k \in 1..Len(ds) :
        /\ ds[k].status \in {"success", "error"}
        /\ ds[k].status = "error" <=> k \in raised
        /\ ds[k].status = "error" => ds[k].placesFound = 0 /\ ds[k].error # <<>>
        /\ ds[k].status = "success" =>
              \E f \in 1..Len(files) :
                  /\ files[f].district = k
                  /\ ds[k].placesFound = Len(files[f].places)

\* C4: a status entry says "error" exactly when the try block of its district
\* raised; an "error" entry has placesFound = 0 and an error message, a
\* "success" entry has placesFound equal to the number of records written to
\* the district's file.
C4_StatusIffRaised ==
    mode = "batch" =>
        /\ EntriesTellOutcome(districts)
        /\ summaryFile # <<>> => EntriesTellOutcome(summaryFile[1].districts)

C4_Witness ==
    /\ mode = "batch" /\ Len(districts) = NumDistricts
    /\ districts[1].status = "error" /\ districts[1].error = <<"write">>
    /\ districts[NumDistricts].status = "success"
    /\ districts[NumDistricts].placesFound >= 1

\* C5: a batch run ended by an interrupt after its first district was started
\* has closed its browser and exits 0.
C5_GracefulInterrupt ==
    (mode = "batch" /\ pc = "killed" /\ attempted # <<>>) =>
        exitCode = 0 /\ browser # "open"

\* the last m observations each repeat the one before
Stalled(s, m) ==
    /\ Len(s) > m
    /\ \A k \in (Len(s) - m + 1)..Len(s) : s[k] = s[k - 1]

InScrollLoop == pc \in {"scroll", "scrollCount", "scrollCmd"}

C6_ExitOnThirdStall ==
    /\ pc = "scrollCount" => ~Stalled(obs, maxNoNewResults)
    /\ pc = "extract" =>
          /\ scrollExit \in {"target", "stall"}
          /\ scrollExit = "stall" =>
                /\ Stalled(obs, maxNoNewResults)
                /\ obs[Len(obs)] < maxResults
          /\ scrollExit = "target" => obs[Len(obs)] >= maxResults

\* C6: scrollResults makes no further count observation once the last 3
\* observations each repeated the one before, leaves its loop short of the
\* target only then, and on a page whose rendered items only grow up to a
\* ceiling it does leave the loop.
C6_ScrollTerminates ==
    /\ []C6_ExitOnThirdStall
    /\ (InScrollLoop /\ ~volatile) ~> ~InScrollLoop

C6_Witness ==
    /\ pc = "extract" /\ scrollExit = "stall" /\ ~volatile
    /\ variant = "poll"
    /\ Len(feedItems) = MaxItems /\ loaded = MaxItems
    /\ obs[Len(obs)] = countResults(feedItems)
    /\ maxResults > MaxItems

\* C7: in the polling revision waitForResults issues at most 30 polls; every
\* poll that did not see the feed, failed ones included, is one counted
\* attempt; the first poll that sees the feed ends the wait; the timeout is
\* raised only when 30 polls have gone by without the feed.
C7_PollBudget ==
    variant = "poll" =>
        /\ queries <= maxAttempts
        /\ pc = "wait" => attempts = queries /\ attempts < maxAttempts
        /\ pc = "scroll" => queries = attempts + 1
        /\ err = TimeoutMessage => queries = maxAttempts /\ attempts = maxAttempts

C7_Witness ==
    /\ variant = "poll" /\ pc = "catchDistrict"
    /\ err = TimeoutMessage /\ queries = maxAttempts

\* the anchor a record was read from: a non-empty label and an href with a
\* `!1s<token>` match
SourceAnchor(r, it) ==
    /\ it.label.present /\ it.label.value # <<>> /\ it.label.value = r.name
    /\ it.href.present
    /\ \E k \in 1..Len(it.href.value) : MatchAt(it.href.value, k)

\* C8: every record extractPlaces returns has a non-empty name and a non-empty
\* placeId and was read from an anchor with a non-empty aria-label and an href
\* holding a `!1s<token>` match.
C8_RecordsHaveNameAndId ==
    \A k \in 1..Len(places) :
        /\ places[k].name # <<>>
        /\ places[k].placeId # <<>>
        /\ \E j \in 1..Len(Rendered) : SourceAnchor(places[k], Rendered[j])

C8_Witness ==
    /\ pc = "save" /\ Len(places) >= 1 /\ Len(places) < loaded
    /\ \E j \in 1..loaded : ~Rendered[j].label.present

\* C9: every run payload on disk has totalResults equal to the length of its
\* places.
C9_TotalIsLength ==
    \A k \in 1..Len(files) : files[k].totalResults = Len(files[k].places)

C9_Witness ==
    /\ Len(files) >= 1
    /\ files[Len(files)].totalResults >= 1
    /\ files[Len(files)].totalResults # maxResults

\* C10: a district after the first starts right after a sleep of 3000..5000 ms
\* that followed the previous district's status entry.
C10_DelayBetweenDistricts ==
    (mode = "batch" /\ pc = "search" /\ i > 1) =>
        (lastDelay >= 3000 /\ lastDelay <= 5000)

\* the wait that precedes scrollResults, and the wait that follows each scroll
FeedWait == IF variant = "poll" THEN FeedDelay ELSE FeedDelaySelector

ScrollWait == IF variant = "poll" THEN ScrollDelay ELSE ScrollDelaySelector

\* C11: when the first count observation of scrollResults is already at or
\* above maxResults the loop is left at once on the target test: no scroll
\* command was issued and the last wait is still the one that preceded
\* scrollResults, not a post-scroll wait.
C11_EarlyExit ==
    (pc \in {"scrollCount", "scrollCmd", "extract"}
        /\ Len(obs) = 2 /\ obs[2] >= maxResults) =>
            /\ pc = "extract" /\ scrollExit = "target"
            /\ scrolls = 0
            /\ lastDelay = FeedWait /\ lastDelay # ScrollWait
            /\ err = <<>>

C11_Witness ==
    /\ pc = "extract" /\ scrollExit = "target" /\ scrolls = 0
    /\ Len(obs) = 2 /\ obs[2] > maxResults /\ maxResults >= 2
    /\ failedCounts = 0

\* an item anchor of the feed: an anchor whose href holds "/maps/place/"
ItemAnchor(it) ==
    it.href.present /\ \E k \in 1..Len(it.href.value) : it.href.value[k] = "P"

\* a valid item anchor: a non-empty aria-label and an href with `!1s<token>`
ValidAnchor(it) ==
    /\ it.label.present /\ it.label.value # <<>>
    /\ it.href.present
    /\ \E k \in 1..Len(it.href.value) : MatchAt(it.href.value, k)

\* C12: in the polling revision, for a feed of valid item anchors (non-empty
\* aria-label, href with a `!1s<token>` identifier) and invalid ones (name or
\* identifier missing) in any order, extractPlaces returns exactly one record
\* per valid anchor, in document order, carrying that anchor's name and url.
C12_OneRecordPerValidAnchor ==
    (pc = "save" /\ variant = "poll") =>
        LET anchors == SelectSeq(Rendered, ItemAnchor)
            valid == SelectSeq(anchors, ValidAnchor)
        IN  /\ Len(places) = Len(valid)
            /\ \A k \in 1..Len(valid) :
                  /\ places[k].name = valid[k].label.value
                  /\ places[k].url = AbsUrl(valid[k].href.value)
                  /\ places[k].placeId # <<>>

C12_Witness ==
    /\ pc = "save" /\ variant = "poll"
    /\ Len(Rendered) = 3 /\ Len(places) = 2
    /\ ValidAnchor(Rendered[1]) /\ ~ValidAnchor(Rendered[2]) /\ ValidAnchor(Rendered[3])
    /\ places[1].name = <<"C">> /\ places[2].name = <<"A">>

\* the label "1,234 reviews"
SampleReviews == <<"1", ",", "2", "3", "4", " ", "R">>

\* C13: the label "1,234 reviews" gives totalReviews 1234; a label with no
\* digit in it gives an absent totalReviews; and the totalReviews of a record
\* is always absent or an integer, never another value.
C13_ReviewsIntegerOrAbsent ==
    /\ \A k \in 1..Len(places) :
          places[k].totalReviews.kind \in {"number", "undefined"}
    /\ (pc = "save" /\ Len(Rendered) = 1 /\ Len(places) = 1) =>
          LET s == AttrOrEmpty(Rendered[1].reviews)
              t == places[1].totalReviews
          IN  /\ s = SampleReviews => t = Number(1234)
              /\ (\A j \in 1..Len(s) : ~IsDigit(s[j])) => t = Absent

\* C14 as stated: no scroll command is issued with the stall counter at its
\* threshold, and at most 2 scroll commands follow the last change of the
\* recorded count.
C14_StallTestBeforeScroll ==
    /\ pc = "scrollCmd" => noNewResultsCount < maxNoNewResults
    /\ scrolls <= 2

\* C14 amended: the stall bookkeeping precedes the scroll command but the
\* threshold is tested only by the loop condition, after the scroll and its
\* wait: the iteration that brings the stall counter to 3 still scrolls and
\* waits, and no count follows it.  At most 4 scroll commands follow the last
\* change of the recorded count; a stall exit has seen 4 of them, or 3 when the
\* recorded count never changed.
C14_ScrollThenLoopTest ==
    /\ scrolls <= maxNoNewResults + 1
    /\ noNewResultsCount <= maxNoNewResults
    /\ pc = "scrollCmd" => scrolls <= noNewResultsCount
    /\ pc = "scrollCount" =>
          noNewResultsCount < maxNoNewResults /\ scrolls <= noNewResultsCount + 1
    /\ (pc = "extract" /\ scrollExit = "stall") =>
          /\ noNewResultsCount = maxNoNewResults
          /\ scrolls \in {maxNoNewResults, maxNoNewResults + 1}
          /\ scrolls = maxNoNewResults => previousCount = 0
          /\ lastDelay = ScrollWait

C14_Witness ==
    /\ pc = "extract" /\ scrollExit = "stall"
    /\ scrolls = maxNoNewResults + 1 /\ previousCount >= 1
    /\ ~volatile /\ failedCounts = 0 /\ lastDelay = ScrollWait

\* C15: a count step of scrollResults never lowers the recorded count, and it
\* leaves the stall counter at zero only when it has raised the recorded count.
C15_ResetOnlyOnGrowth ==
    [][pc = "scrollCount" =>
          /\ previousCount' >= previousCount
          /\ (pc' = "scrollCmd" /\ noNewResultsCount' = 0) =>
                previousCount' > previousCount]_vars

\* C16: whatever the count query and the scroll command do, a step of the
\* scrollResults loop raises nothing: it stays in the loop or goes on to the
\* extraction.
C16_ScrollErrorsStayLocal ==
    [][(pc = "scrollCount" \/ pc = "scrollCmd") =>
          /\ err' = <<>>
          /\ pc' \in {"scrollCount", "scrollCmd", "extract"}]_vars

====
